---- MODULE Spec2Model ----
(***************************************************************************)
(* A model of the LetMeKnow python client (src/src/letmeknowclient):       *)
(* the LMKClient session object of lmk.py, the websocket it owns, the      *)
(* server and transport as its environment, and the message codec of       *)
(* models.py.                                                              *)
(*                                                                         *)
(* The client is driven by two cooperative asyncio tasks: the caller's     *)
(* own flow ("main": ws_connect, ws_register, ws_send_notification,        *)
(* _ws_send, ws_listen_for_notifications, _close, __aexit__) and the       *)
(* background ws_keep_alive task ("ka").  One action is one run of a       *)
(* coroutine between two suspension points.                                *)
(***************************************************************************)
EXTENDS Integers, Sequences, FiniteSets, TLC

\* ------------------------------------------------------------------ bounds

\* How many websockets the transport lets the client open in one run.
MaxSockets == 2
\* How many frames may be queued unread at a time, over all websockets.
MaxQueued == 1
\* How many frames may be queued unread on the websocket of the specification
\* SpecBurst.
MaxBurst == 3

\* ------------------------------------------------------- optional values

\* Python's None and a present value: <<>> and <<v>>.
None == <<>>
Some(v) == <<v>>
IsNone(o) == o = <<>>
Val(o) == o[1]

\* dict.get(key): the value, or None when the key is absent.
Get(d, k) == IF k \in DOMAIN d THEN d[k] ELSE None

\* ------------------------------------------------------------- models.py

\* LMKWSRequestType
REGISTER_REQ == "register"
NOTIFICATION_REQ == "notification"
LMKWSRequestType == {REGISTER_REQ, NOTIFICATION_REQ}

\* LMKWSResponseType
ERROR == "error"
NOTIFICATION_SENT == "notificationSent"
REGISTER == "register"
SUCCESS == "success"
LMKWSResponseType == {ERROR, NOTIFICATION_SENT, REGISTER, SUCCESS}

\* const.py
TARGETS_ALL_CLIENTS == <<"client-*">>

\* str(x) of an optional string: str(None) is the text "None".
PyStr(o) == IF IsNone(o) THEN "None" ELSE Val(o)

\* LMKNotificationImage.to_dict / from_dict
LMKNotificationImage_to_dict(img) == [url |-> img.url]
LMKNotificationImage_from_dict(result) == [url |-> result.url]

\* LMKNotification.to_dict: every key is written; "type" goes through str().
LMKNotification_to_dict(n) ==
    [type     |-> Some(PyStr(n.type)),
     title    |-> n.title,
     subtitle |-> n.subtitle,
     content  |-> n.content,
     image    |-> IF IsNone(n.image) THEN None
                  ELSE Some(LMKNotificationImage_to_dict(Val(n.image))),
     timeout  |-> n.timeout]

\* LMKNotification.from_dict: every field is read with dict.get.
LMKNotification_from_dict(result) ==
    [type     |-> Get(result, "type"),
     title    |-> Get(result, "title"),
     subtitle |-> Get(result, "subtitle"),
     content  |-> Get(result, "content"),
     image    |-> IF IsNone(Get(result, "image")) THEN None
                  ELSE Some(LMKNotificationImage_from_dict(Val(result["image"]))),
     timeout  |-> Get(result, "timeout")]

\* LMKWSRegister.to_dict
LMKWSRegister_to_dict(r) == [type |-> r.type, userID |-> r.user_id]

\* LMKWSNotification.to_dict
LMKWSNotification_to_dict(m) ==
    [type |-> m.type, data |-> LMKNotification_to_dict(m.data), targets |-> m.targets]

\* A decoder's result: a value, or the exception it raised.
Ok(v) == [raised |-> "", value |-> v]
Raise(e) == [raised |-> e, value |-> [cls |-> "none"]]

\* LMKWSNotification.from_dict: result["type"], LMKWSRequestType(...),
\* result["data"], result["targets"], in that order.
LMKWSNotification_from_dict(result) ==
    IF "type" \notin DOMAIN result THEN Raise("KeyError")
    ELSE IF result["type"] \notin LMKWSRequestType THEN Raise("ValueError")
    ELSE IF "data" \notin DOMAIN result THEN Raise("KeyError")
    ELSE IF "targets" \notin DOMAIN result THEN Raise("KeyError")
    ELSE Ok([cls |-> "LMKWSNotification", type |-> result["type"],
             data |-> LMKNotification_from_dict(result["data"]),
             targets |-> result["targets"]])

\* LMKWSResponseError.from_dict: the tag is whatever the wire's "type" says.
LMKWSResponseError_from_dict(result) ==
    IF "type" \notin DOMAIN result THEN Raise("KeyError")
    ELSE IF result["type"] \notin LMKWSResponseType THEN Raise("ValueError")
    ELSE IF "message" \notin DOMAIN result THEN Raise("KeyError")
    ELSE IF "error" \notin DOMAIN result THEN Raise("KeyError")
    ELSE Ok([cls |-> "LMKWSResponseError", type |-> result["type"],
             message |-> result["message"], error |-> result["error"]])

\* LMKWSResponseSuccess.from_dict: "succeeded" and "message" are required.
LMKWSResponseSuccess_from_dict(result) ==
    IF "type" \notin DOMAIN result THEN Raise("KeyError")
    ELSE IF result["type"] \notin LMKWSResponseType THEN Raise("ValueError")
    ELSE IF "succeeded" \notin DOMAIN result THEN Raise("KeyError")
    ELSE IF "message" \notin DOMAIN result THEN Raise("KeyError")
    ELSE Ok([cls |-> "LMKWSResponseSuccess", type |-> result["type"],
             succeeded |-> result["succeeded"], message |-> result["message"]])

\* ------------------------------------------------------------ the values

\* Notifications the caller sends and the server pushes.
N_Empty ==
    [type |-> None, title |-> None, subtitle |-> None, content |-> None,
     image |-> None, timeout |-> None]
N_Full ==
    [type |-> Some("notification"), title |-> Some("t"), subtitle |-> Some("s"),
     content |-> Some("c"), image |-> Some([url |-> "u"]), timeout |-> Some(5)]
Notifications == {N_Empty, N_Full}

\* The arguments of ws_send_notification: targets omitted, or given.
NotifyArgs == {<<N_Empty, None>>, <<N_Full, Some(<<"headless-*", "client-1">>)>>}

\* The user ids a client may be constructed with (utils.generate_user_id).
UserIds == {"client-u1"}

\* The JSON objects the server may send as a text frame.
W_RegisterAck == [type |-> "register", succeeded |-> TRUE, message |-> "registered"]
W_RegisterMin == [type |-> "register"]
W_Sent == [type |-> "notificationSent", succeeded |-> TRUE, message |-> "sent"]
W_Error == [type |-> "error", message |-> "failed", error |-> "bad request"]
W_ErrorAsRegister == [type |-> "register", message |-> "failed", error |-> "bad request"]
W_Push ==
    [type |-> "notification", data |-> LMKNotification_to_dict(N_Full),
     targets |-> TARGETS_ALL_CLIENTS]
ServerWires == {W_RegisterAck, W_RegisterMin, W_Sent, W_Error, W_ErrorAsRegister, W_Push}

\* The frames the server may send: text frames, a close frame, a binary frame.
TextFrame(w) == [kind |-> "TEXT", data |-> w]
CloseFrame == [kind |-> "CLOSE"]
BinaryFrame == [kind |-> "BINARY"]
ServerFrames == {TextFrame(w) : w \in ServerWires} \cup {CloseFrame, BinaryFrame}
\* What receive() returns on a closed websocket or at end of stream.
ClosedMessage == [kind |-> "CLOSED"]

Sockets == 1..MaxSockets
Tasks == {"main", "ka"}

\* ------------------------------------------------------------- the state

VARIABLES
    lmk_user_id,    \* LMKClient.lmk_user_id
    session,        \* LMKClient.session: "None", or the ClientSession "open" / "closed"
    close_session,  \* LMKClient._close_session
    ws,             \* LMKClient._ws: 0 (None) or the websocket's id
    sockState,      \* per websocket: "unused", "open", "broken" (transport lost,
                    \* closed flag not yet set) or "closed" (ws.closed is true)
    inbox,          \* per websocket: the frames received and not yet read
    sent,           \* what the last step wrote to a websocket, or NoWrite
    response,       \* what receive() returned to _ws_send in the last step, or
                    \* NoResponse
    timedOut,       \* the websockets on which a request timed out unanswered
    pc,             \* per task: where its coroutine is suspended
    op,             \* the operation the main task is running, "" when it runs none
    tsock,          \* per task: the websocket whose receive() it awaits
    outcome,        \* how the operation that ended in the last step ended, or NoOutcome
    cbLog,          \* the notifications the last step handed to the listen callback
    closeAction,    \* what session.close() did in the last step: "none" (not
                    \* called), "closed" (it closed the session) or "skipped"
                    \* (the session was closed already)
    cpc,            \* the codec round trip: "off", "value", "encoded", "decoded"
    cn,             \* the LMKNotification of the round trip
    cwire,          \* its to_dict()
    cdec            \* the from_dict() of that

vars == <<lmk_user_id, session, close_session, ws, sockState, inbox, sent, response,
          timedOut,
          pc, op, tsock, outcome, cbLog, closeAction, cpc, cn, cwire, cdec>>

\* The client and its websockets; the codec round trip.
client == <<lmk_user_id, session, close_session, ws, sockState, inbox, sent, response,
            timedOut, pc, op, tsock, outcome, cbLog, closeAction>>
codec == <<cpc, cn, cwire, cdec>>

NoWrite == [sock |-> 0]
Wrote(s, data) == [sock |-> s, data |-> data]

\* stale: the frame was already queued when the request was written.
NoResponse == [sock |-> 0]
Got(msg, s, stale) == [sock |-> s, msg |-> msg, stale |-> stale]

NoOutcome == [kind |-> "none"]
Returned(o, v) == [kind |-> "return", op |-> o, value |-> v]
Raised(o, e) == [kind |-> "raise", op |-> o, exc |-> e]
\* ws_keep_alive got its REGISTER reply and goes on polling.
Reconnected(v) == [kind |-> "reconnected", op |-> "ws_keep_alive", value |-> v]

\* ------------------------------------------------- the websocket (aiohttp)

\* ClientWebSocketResponse.closed
Closed(s) == sockState[s] = "closed"

\* Some task is suspended in receive() on websocket s.
Receiving(s) == \E t \in Tasks : pc[t] \in {"recv", "listen"} /\ tsock[t] = s

\* Frames queued on a websocket that neither the handle h nor a suspended
\* coroutine (ts) refers to can never be read: they are dropped with it.
Live(ibs, h, ts) ==
    [s \in Sockets |-> IF s = h \/ \E t \in Tasks : ts[t] = s THEN ibs[s] ELSE <<>>]

LiveSet(S, h, ts) == {s \in S : s = h \/ \E t \in Tasks : ts[t] = s}

\* A receive() that takes the frame that arrived last.
Receive_last(st, ib) ==
    IF st = "closed" THEN
        [ready |-> TRUE, msg |-> ClosedMessage, st |-> "closed", ib |-> ib]
    ELSE IF ib # <<>> THEN
        [ready |-> TRUE, msg |-> ib[Len(ib)],
         st |-> IF ib[Len(ib)].kind = "CLOSE" THEN "closed" ELSE st,
         ib |-> SubSeq(ib, 1, Len(ib) - 1)]
    ELSE IF st = "broken" THEN
        [ready |-> TRUE, msg |-> ClosedMessage, st |-> "closed", ib |-> ib]
    ELSE
        [ready |-> FALSE, msg |-> ClosedMessage, st |-> st, ib |-> ib]

\* ClientWebSocketResponse.receive() when it does not have to wait: a closed
\* websocket answers CLOSED, a queued frame is taken (a close frame closes the
\* websocket), a lost transport is seen as the end of the stream.
\* ready = FALSE: nothing to return yet, the caller is suspended.
Receive(st, ib) ==
    IF st = "closed" THEN
        [ready |-> TRUE, msg |-> ClosedMessage, st |-> "closed", ib |-> ib]
    ELSE IF ib # <<>> THEN
        [ready |-> TRUE, msg |-> Head(ib),
         st |-> IF Head(ib).kind = "CLOSE" THEN "closed" ELSE st, ib |-> Tail(ib)]
    ELSE IF st = "broken" THEN
        [ready |-> TRUE, msg |-> ClosedMessage, st |-> "closed", ib |-> ib]
    ELSE
        [ready |-> FALSE, msg |-> ClosedMessage, st |-> st, ib |-> ib]

\* ---------------------------------------------------------------- lmk.py

\* LMKClient.ws_connected
ws_connected == ws # 0 /\ ~Closed(ws)

\* The guard without its test of the closed flag.
NotConnected_handle_only(h, st) == h = 0

\* _ws_send, lines 90-91: the guard that raises LMKNotConnectedError.
NotConnected(h, st) == h = 0 \/ st = "closed"

\* A _ws_send that ignores wait_for_response.
WaitForResponse_always(wait) == TRUE

\* _ws_send, lines 93-95: wait_for_response defaults to True.
WaitForResponse(wait) == IF IsNone(wait) THEN TRUE ELSE Val(wait)

\* _ws_send, lines 108-113: the synthetic reply of a send that expects none.
NoResponseExpected ==
    [cls |-> "LMKWSResponseSuccess", type |-> SUCCESS, succeeded |-> TRUE,
     message |-> "No response expected"]

\* _ws_send, lines 122-125: an "error" key selects the decoder.
DecodeResponse(response_data) ==
    IF "error" \in DOMAIN response_data
    THEN LMKWSResponseError_from_dict(response_data)
    ELSE LMKWSResponseSuccess_from_dict(response_data)

\* _ws_send, lines 127-131
IsCloseKind(k) == k \in {"CLOSE", "CLOSED", "CLOSING"}

\* A _ws_send that keeps the handle of a closed connection.
ClearsHandle_never(msg) == FALSE

\* _ws_send, line 132: a close frame clears the handle.
ClearsHandle(msg) == IsCloseKind(msg.kind)

\* _ws_send, lines 118-143: what is returned or raised for the frame received.
HandleResponse(msg) ==
    IF msg.kind = "TEXT" THEN DecodeResponse(msg.data)
    ELSE IF IsCloseKind(msg.kind) THEN
        Ok([cls |-> "LMKWSResponseError", type |-> ERROR,
            message |-> "Connection closed", error |-> "Connection closed"])
    ELSE
        Ok([cls |-> "LMKWSResponseError", type |-> ERROR,
            message |-> "Unused response type", error |-> msg.kind])

\* A _ws_send that takes a failed write for a written request.
WsSend_ignores_write_error(h, st, ib, busy, wait) ==
    LET stay(r, w) == [res |-> r, suspended |-> FALSE, wrote |-> w, read |-> FALSE,
                       st |-> st, ib |-> ib, clear |-> FALSE]
        rcv == Receive(st, ib)
    IN  IF NotConnected(h, st) THEN stay(Raise("LMKNotConnectedError"), FALSE)
        ELSE IF ~WaitForResponse(wait) THEN stay(Ok(NoResponseExpected), TRUE)
        ELSE IF busy THEN stay(Raise("RuntimeError"), TRUE)
        ELSE IF ~rcv.ready THEN
            [res |-> Ok([cls |-> "none"]), suspended |-> TRUE, wrote |-> TRUE,
             read |-> FALSE, st |-> st, ib |-> ib, clear |-> FALSE]
        ELSE
            [res |-> HandleResponse(rcv.msg), suspended |-> FALSE, wrote |-> TRUE,
             read |-> TRUE, msg |-> rcv.msg,
             st |-> rcv.st, ib |-> rcv.ib, clear |-> ClearsHandle(rcv.msg)]

\* _ws_send, lines 90-143, run from its call to its first suspension or its end,
\* on handle h whose websocket is in state st with ib queued; busy: another task
\* is suspended in receive() on it.
\*   res.raised / res.value : the exception raised or the envelope returned
\*   suspended              : the coroutine now awaits receive()
\*   wrote                  : send_json wrote the data
\*   read, msg              : receive() returned msg at once
\*   st, ib                 : the websocket afterwards
\*   clear                  : self._ws was set to None
WsSend(h, st, ib, busy, wait) ==
    LET stay(r, w) == [res |-> r, suspended |-> FALSE, wrote |-> w, read |-> FALSE,
                       st |-> st, ib |-> ib, clear |-> FALSE]
        rcv == Receive(st, ib)
    IN  IF NotConnected(h, st) THEN stay(Raise("LMKNotConnectedError"), FALSE)
        ELSE IF st = "broken" THEN stay(Raise("LMKConnectionError"), FALSE)
        ELSE IF ~WaitForResponse(wait) THEN stay(Ok(NoResponseExpected), TRUE)
        ELSE IF busy THEN stay(Raise("RuntimeError"), TRUE)
        ELSE IF ~rcv.ready THEN
            [res |-> Ok([cls |-> "none"]), suspended |-> TRUE, wrote |-> TRUE,
             read |-> FALSE, st |-> st, ib |-> ib, clear |-> FALSE]
        ELSE
            [res |-> HandleResponse(rcv.msg), suspended |-> FALSE, wrote |-> TRUE,
             read |-> TRUE, msg |-> rcv.msg,
             st |-> rcv.st, ib |-> rcv.ib, clear |-> ClearsHandle(rcv.msg)]

\* A ws_register that registers under a user id made for the request.
RegisterData_fresh_id ==
    LMKWSRegister_to_dict([type |-> REGISTER_REQ, user_id |-> "client-u2"])

\* ws_register, lines 231-236: the request written.
RegisterData ==
    LMKWSRegister_to_dict([type |-> REGISTER_REQ, user_id |-> lmk_user_id])

\* A ws_send_notification that sends to all clients whatever targets it is given.
NotificationData_all_clients(notification, targets) ==
    LMKWSNotification_to_dict(
        [type |-> NOTIFICATION_REQ, data |-> notification, targets |-> TARGETS_ALL_CLIENTS])

\* ws_send_notification, lines 255-267: the request written.
NotificationData(notification, targets) ==
    LMKWSNotification_to_dict(
        [type |-> NOTIFICATION_REQ, data |-> notification,
         targets |-> IF IsNone(targets) THEN TARGETS_ALL_CLIENTS ELSE Val(targets)])

\* -------------------------------------------------------------- the tasks

\* The websocket a successful handshake returns: the next unused one.
NewSock == CHOOSE s \in Sockets : sockState[s] = "unused" /\
                                  \A u \in Sockets : sockState[u] = "unused" => s <= u
CanOpen == \E s \in Sockets : sockState[s] = "unused"

\* A ws_keep_alive that goes on only after a success envelope.
Reregistered_success_only(register_response) ==
    register_response.type = REGISTER /\ register_response.cls = "LMKWSResponseSuccess"

\* ws_keep_alive, lines 208-219: a reply whose type is REGISTER lets the loop go
\* on; any other reply is logged and ends it.
Reregistered(register_response) == register_response.type = REGISTER

\* How an operation o that ends with `res` leaves task t.  The main task returns
\* to its caller.  ws_keep_alive (lines 204-219) lets an exception of ws_connect
\* or ws_register propagate, returns on a reply that is not a REGISTER, and
\* otherwise calls itself and polls again.
TaskEnd(t, o, res) ==
    IF t = "main" THEN
        [pc |-> "idle",
         out |-> IF res.raised # "" THEN Raised(o, res.raised) ELSE Returned(o, res.value)]
    ELSE IF res.raised # "" THEN
        [pc |-> "done", out |-> Raised("ws_keep_alive", res.raised)]
    ELSE IF ~Reregistered(res.value) THEN
        [pc |-> "done", out |-> Returned("ws_keep_alive", res.value)]
    ELSE
        [pc |-> "poll", out |-> Reconnected(res.value)]

\* The state after task t ran _ws_send (operation o, request `data`) on handle h
\* with result r, sockets and inboxes being ss and ibs before the send.
ApplySend(t, o, h, data, r, ss, ibs) ==
    LET e == TaskEnd(t, o, r.res) IN
    /\ sockState' = IF h = 0 THEN ss ELSE [ss EXCEPT ![h] = r.st]
    /\ ws' = IF r.clear THEN 0 ELSE h
    /\ sent' = IF r.wrote THEN Wrote(h, data) ELSE NoWrite
    /\ response' = IF r.read THEN Got(r.msg, h, TRUE) ELSE NoResponse
    /\ pc' = [pc EXCEPT ![t] = IF r.suspended THEN "recv" ELSE e.pc]
    /\ op' = IF t = "main" THEN (IF r.suspended THEN o ELSE "") ELSE op
    /\ tsock' = [tsock EXCEPT ![t] = IF r.suspended THEN h ELSE 0]
    /\ inbox' = Live(IF h = 0 THEN ibs ELSE [ibs EXCEPT ![h] = r.ib], ws', tsock')
    /\ timedOut' = LiveSet(timedOut, ws', tsock')
    /\ UNCHANGED codec
    /\ closeAction' = "none"
    /\ outcome' = IF r.suspended THEN NoOutcome ELSE e.out

\* ws_connect, lines 164-182, up to the await of the handshake: a client without
\* a session creates one and owns it; a closed session refuses the request.
ConnectCall(t) ==
    LET sess == IF session = "None" THEN "open" ELSE session
        e == TaskEnd(t, "ws_connect", Raise("RuntimeError"))
    IN  /\ session' = sess
        /\ close_session' = IF session = "None" THEN TRUE ELSE close_session
        /\ pc' = [pc EXCEPT ![t] = IF sess = "closed" THEN e.pc ELSE "handshake"]
        /\ outcome' = IF sess = "closed" THEN e.out ELSE NoOutcome
        /\ op' = IF t = "main" /\ sess # "closed" THEN "ws_connect" ELSE op
        /\ sent' = NoWrite
        /\ response' = NoResponse
        /\ timedOut' = timedOut
        /\ UNCHANGED codec
        /\ closeAction' = "none"
        /\ cbLog' = <<>>
    /\ UNCHANGED <<lmk_user_id, ws, sockState, inbox, tsock>>

\* ws_connect called by the caller.
ws_connect ==
    /\ pc["main"] = "idle"
    /\ ConnectCall("main")

\* ws_connect, lines 182-195: the handshake succeeded; the handle is stored
\* and True is returned.
ws_connect_ok ==
    /\ pc["main"] = "handshake"
    /\ session = "open"
    /\ CanOpen
    /\ ws' = NewSock
    /\ sockState' = [sockState EXCEPT ![NewSock] = "open"]
    /\ pc' = [pc EXCEPT !["main"] = "idle"]
    /\ op' = ""
    /\ outcome' = Returned("ws_connect", [cls |-> "True"])
    /\ sent' = NoWrite
    /\ response' = NoResponse
    /\ timedOut' = LiveSet(timedOut, ws', tsock)
    /\ UNCHANGED codec
    /\ closeAction' = "none"
    /\ inbox' = Live(inbox, ws', tsock)
    /\ cbLog' = <<>>
    /\ UNCHANGED <<lmk_user_id, session, close_session, tsock>>

\* ws_connect, lines 187-193: the handshake timed out or failed.
ws_connect_fail(t) ==
    LET e == TaskEnd(t, "ws_connect", Raise("LMKConnectionError")) IN
    /\ pc[t] = "handshake"
    /\ pc' = [pc EXCEPT ![t] = e.pc]
    /\ op' = IF t = "main" THEN "" ELSE op
    /\ outcome' = e.out
    /\ sent' = NoWrite
    /\ response' = NoResponse
    /\ timedOut' = timedOut
    /\ UNCHANGED codec
    /\ closeAction' = "none"
    /\ cbLog' = <<>>
    /\ UNCHANGED <<lmk_user_id, session, close_session, ws, sockState, inbox, tsock>>

\* _ws_send as the main task calls it on the stored handle.
MainSend(o, data, wait) ==
    /\ pc["main"] = "idle"
    /\ ApplySend("main", o, ws, data,
                 WsSend(ws, IF ws = 0 THEN "unused" ELSE sockState[ws],
                        IF ws = 0 THEN <<>> ELSE inbox[ws],
                        ws # 0 /\ Receiving(ws), wait),
                 sockState, inbox)
    /\ cbLog' = <<>>
    /\ UNCHANGED <<lmk_user_id, session, close_session>>

\* ws_register called by the caller.
ws_register == MainSend("ws_register", RegisterData, None)

\* ws_send_notification called by the caller.
ws_send_notification(notification, targets) ==
    MainSend("ws_send_notification", NotificationData(notification, targets), None)

\* _ws_send called with wait_for_response=False.
ws_send_no_wait == MainSend("_ws_send", RegisterData, Some(FALSE))

\* _ws_send, lines 115-143: a suspended receive() returns a frame.
ws_send_receive(t) ==
    LET s == tsock[t]
        rcv == Receive(sockState[s], inbox[s])
        e == TaskEnd(t, op, HandleResponse(rcv.msg))
    IN  /\ pc[t] = "recv"
        /\ rcv.ready
        /\ sockState' = [sockState EXCEPT ![s] = rcv.st]
        /\ ws' = IF ClearsHandle(rcv.msg) THEN 0 ELSE ws
        /\ pc' = [pc EXCEPT ![t] = e.pc]
        /\ op' = IF t = "main" THEN "" ELSE op
        /\ tsock' = [tsock EXCEPT ![t] = 0]
        /\ inbox' = Live([inbox EXCEPT ![s] = rcv.ib], ws', tsock')
        /\ outcome' = e.out
        /\ sent' = NoWrite
        /\ response' = Got(rcv.msg, s, FALSE)
        /\ timedOut' = LiveSet(timedOut, ws', tsock')
        /\ UNCHANGED codec
        /\ closeAction' = "none"
        /\ cbLog' = <<>>
    /\ UNCHANGED <<lmk_user_id, session, close_session>>

\* A _ws_send that reports a timeout as a connection error.
RequestTimeout_as_connection_error == Raise("LMKConnectionError")

\* _ws_send, lines 115-116: asyncio.timeout raises TimeoutError, which nothing
\* in _ws_send catches.
RequestTimeout == Raise("TimeoutError")

\* _ws_send, line 115: asyncio.timeout expires while receive() is suspended.
\* Nothing but the coroutine is touched.
ws_send_timeout(t) ==
    LET e == TaskEnd(t, op, RequestTimeout) IN
    /\ pc[t] = "recv"
    /\ pc' = [pc EXCEPT ![t] = e.pc]
    /\ op' = IF t = "main" THEN "" ELSE op
    /\ tsock' = [tsock EXCEPT ![t] = 0]
    /\ outcome' = e.out
    /\ sent' = NoWrite
    /\ response' = NoResponse
    /\ timedOut' = LiveSet(timedOut \cup {tsock[t]}, ws, tsock')
    /\ UNCHANGED codec
    /\ closeAction' = "none"
    /\ inbox' = Live(inbox, ws, tsock')
    /\ cbLog' = <<>>
    /\ UNCHANGED <<lmk_user_id, session, close_session, ws, sockState>>

\* ws_listen_for_notifications, lines 283-289, from one suspension of the
\* `async for` to the next: every frame that can be taken is handled in turn.
\* A close message ends the iteration, any other non-text frame breaks the loop,
\* a text frame is decoded and its notification handed to the callback.
\*   end: "suspend", "return", or the exception raised by the decoder.
\* A listen loop that passes over a frame that is neither text nor a close.
RECURSIVE ListenLoop_goes_on(_, _, _)
ListenLoop_goes_on(st, ib, log) ==
    LET rcv == Receive(st, ib)
        n == LMKWSNotification_from_dict(rcv.msg.data)
    IN  IF ~rcv.ready THEN [end |-> "suspend", st |-> st, ib |-> ib, log |-> log]
        ELSE IF IsCloseKind(rcv.msg.kind) THEN
            [end |-> "return", st |-> rcv.st, ib |-> rcv.ib, log |-> log]
        ELSE IF rcv.msg.kind # "TEXT" THEN ListenLoop_goes_on(rcv.st, rcv.ib, log)
        ELSE IF n.raised # "" THEN
            [end |-> n.raised, st |-> rcv.st, ib |-> rcv.ib, log |-> log]
        ELSE ListenLoop_goes_on(rcv.st, rcv.ib, Append(log, n.value.data))

RECURSIVE ListenLoop(_, _, _)
ListenLoop(st, ib, log) ==
    LET rcv == Receive(st, ib)
        n == LMKWSNotification_from_dict(rcv.msg.data)
    IN  IF ~rcv.ready THEN [end |-> "suspend", st |-> st, ib |-> ib, log |-> log]
        ELSE IF rcv.msg.kind # "TEXT" THEN
            [end |-> "return", st |-> rcv.st, ib |-> rcv.ib, log |-> log]
        ELSE IF n.raised # "" THEN
            [end |-> n.raised, st |-> rcv.st, ib |-> rcv.ib, log |-> log]
        ELSE ListenLoop(rcv.st, rcv.ib, Append(log, n.value.data))

\* The state after the listen loop of the main task ran on websocket s.
ApplyListen(s, l) ==
    /\ sockState' = [sockState EXCEPT ![s] = l.st]
    /\ cbLog' = l.log
    /\ pc' = [pc EXCEPT !["main"] = IF l.end = "suspend" THEN "listen" ELSE "idle"]
    /\ op' = IF l.end = "suspend" THEN "ws_listen_for_notifications" ELSE ""
    /\ tsock' = [tsock EXCEPT !["main"] = IF l.end = "suspend" THEN s ELSE 0]
    /\ inbox' = Live([inbox EXCEPT ![s] = l.ib], ws, tsock')
    /\ outcome' =
          IF l.end = "suspend" THEN NoOutcome
          ELSE IF l.end = "return"
               THEN Returned("ws_listen_for_notifications", [cls |-> "None"])
               ELSE Raised("ws_listen_for_notifications", l.end)
    /\ sent' = NoWrite
    /\ response' = NoResponse
    /\ timedOut' = LiveSet(timedOut, ws, tsock')
    /\ UNCHANGED codec
    /\ closeAction' = "none"

\* ws_listen_for_notifications called by the caller, lines 280-289.
ws_listen_for_notifications ==
    /\ pc["main"] = "idle"
    /\ IF NotConnected(ws, IF ws = 0 THEN "unused" ELSE sockState[ws]) THEN
          /\ outcome' = Raised("ws_listen_for_notifications", "LMKNotConnectedError")
          /\ sent' = NoWrite
          /\ response' = NoResponse
          /\ timedOut' = timedOut
          /\ UNCHANGED codec
          /\ closeAction' = "none"
          /\ UNCHANGED <<sockState, inbox, pc, op, tsock>>
          /\ cbLog' = <<>>
       ELSE IF Receiving(ws) THEN
          /\ outcome' = Raised("ws_listen_for_notifications", "RuntimeError")
          /\ sent' = NoWrite
          /\ response' = NoResponse
          /\ timedOut' = timedOut
          /\ UNCHANGED codec
          /\ closeAction' = "none"
          /\ UNCHANGED <<sockState, inbox, pc, op, tsock>>
          /\ cbLog' = <<>>
       ELSE ApplyListen(ws, ListenLoop(sockState[ws], inbox[ws], <<>>))
    /\ UNCHANGED <<lmk_user_id, session, close_session, ws>>

\* ws_listen_for_notifications, lines 283-289: the suspended loop gets a frame.
ws_listen_receive ==
    /\ pc["main"] = "listen"
    /\ Receive(sockState[tsock["main"]], inbox[tsock["main"]]).ready
    /\ ApplyListen(tsock["main"],
                   ListenLoop(sockState[tsock["main"]], inbox[tsock["main"]], <<>>))
    /\ UNCHANGED <<lmk_user_id, session, close_session, ws>>

\* ClientSession.close(): the connector drops every transport of the session;
\* the websockets' closed flags are not touched.
SessionClosed(ss) == [s \in Sockets |-> IF ss[s] = "open" THEN "broken" ELSE ss[s]]

\* A _close that closes whatever session the client has.
ClosesSession_any == session # "None"

\* _close, line 74: the session is closed only when the client made it.
ClosesSession == session # "None" /\ close_session

\* _close, lines 72-75: session.close() is called whenever the client owns the
\* session; ClientSession.close() does nothing on a session that is closed.
Close(o) ==
    /\ session' = IF ClosesSession THEN "closed" ELSE session
    /\ sockState' = IF ClosesSession /\ session = "open"
                     THEN SessionClosed(sockState) ELSE sockState
    /\ closeAction' = IF ~ClosesSession THEN "none"
                      ELSE IF session = "open" THEN "closed" ELSE "skipped"
    /\ sent' = NoWrite
    /\ response' = NoResponse
    /\ timedOut' = timedOut
    /\ UNCHANGED codec
    /\ outcome' = Returned(o, [cls |-> "None"])
    /\ cbLog' = <<>>
    /\ UNCHANGED <<lmk_user_id, close_session, ws, inbox, pc, op, tsock>>

\* _close called by the caller.
close ==
    /\ pc["main"] = "idle"
    /\ Close("_close")

\* __aexit__, lines 62-70: an async-with block on the client is left, normally
\* or by an exception of its body.
aexit ==
    /\ pc["main"] = "idle"
    /\ Close("__aexit__")

\* ws_keep_alive started as a task by the caller.
ws_keep_alive ==
    /\ pc["ka"] = "off"
    /\ pc' = [pc EXCEPT !["ka"] = "poll"]
    /\ sent' = NoWrite
    /\ response' = NoResponse
    /\ timedOut' = timedOut
    /\ UNCHANGED codec
    /\ closeAction' = "none"
    /\ outcome' = NoOutcome
    /\ cbLog' = <<>>
    /\ UNCHANGED <<lmk_user_id, session, close_session, ws, sockState, inbox, op, tsock>>

\* A poll of ws_keep_alive that empties the websocket it looks at.
ws_keep_alive_sleep_reads ==
    /\ pc["ka"] = "poll"
    /\ ws_connected
    /\ inbox' = [inbox EXCEPT ![ws] = <<>>]
    /\ sent' = NoWrite
    /\ response' = NoResponse
    /\ timedOut' = timedOut
    /\ UNCHANGED codec
    /\ closeAction' = "none"
    /\ outcome' = NoOutcome
    /\ cbLog' = <<>>
    /\ UNCHANGED <<lmk_user_id, session, close_session, ws, sockState, pc, op, tsock>>

\* ws_keep_alive, lines 199-200: connected, so sleep and look again.
ws_keep_alive_sleep ==
    /\ pc["ka"] = "poll"
    /\ ws_connected
    /\ sent' = NoWrite
    /\ response' = NoResponse
    /\ timedOut' = timedOut
    /\ UNCHANGED codec
    /\ closeAction' = "none"
    /\ outcome' = NoOutcome
    /\ cbLog' = <<>>
    /\ UNCHANGED <<lmk_user_id, session, close_session, ws, sockState, inbox, pc, op, tsock>>

\* ws_keep_alive, lines 199-204: not connected, so reconnect.
ws_keep_alive_reconnect ==
    /\ pc["ka"] = "poll"
    /\ ~ws_connected
    /\ ConnectCall("ka")

\* ws_keep_alive, lines 204-210: the handshake succeeded, ws_connect returned
\* True and ws_register sends its request on the new websocket.
ws_keep_alive_register ==
    LET ss == [sockState EXCEPT ![NewSock] = "open"] IN
    /\ pc["ka"] = "handshake"
    /\ session = "open"
    /\ CanOpen
    /\ ApplySend("ka", "ws_register", NewSock, RegisterData,
                 WsSend(NewSock, ss[NewSock], inbox[NewSock], Receiving(NewSock), None),
                 ss, inbox)
    /\ cbLog' = <<>>
    /\ UNCHANGED <<lmk_user_id, session, close_session>>

\* ------------------------------------------------------- the environment

\* A websocket the client or one of its coroutines still refers to.
Referenced(s) == s = ws \/ \E t \in Tasks : tsock[t] = s

\* The frames queued unread, over all websockets.
RECURSIVE SumLen(_, _)
SumLen(ibs, S) ==
    IF S = {} THEN 0
    ELSE LET s == CHOOSE x \in S : TRUE IN Len(ibs[s]) + SumLen(ibs, S \ {s})
Queued == SumLen(inbox, Sockets)

\* A frame of the server arrives on websocket s and is queued for receive().
Arrive(s, f) ==
    /\ Referenced(s)
    /\ sockState[s] = "open"
    /\ inbox' = [inbox EXCEPT ![s] = Append(@, f)]
    /\ sent' = NoWrite
    /\ response' = NoResponse
    /\ timedOut' = timedOut
    /\ UNCHANGED codec
    /\ closeAction' = "none"
    /\ outcome' = NoOutcome
    /\ cbLog' = <<>>
    /\ UNCHANGED <<lmk_user_id, session, close_session, ws, sockState, pc, op, tsock>>

\* The server sends a frame.
ServerSend(s, f) ==
    /\ Queued < MaxQueued
    /\ Arrive(s, f)

\* The server sends a frame to a client that has up to MaxBurst frames unread.
ServerBurst(s, f) ==
    /\ Len(inbox[s]) < MaxBurst
    /\ Arrive(s, f)

\* The connection is lost (reset, server gone): writes fail from now on.
TransportLost(s) ==
    /\ Referenced(s)
    /\ sockState[s] = "open"
    /\ sockState' = [sockState EXCEPT ![s] = "broken"]
    /\ sent' = NoWrite
    /\ response' = NoResponse
    /\ timedOut' = timedOut
    /\ UNCHANGED codec
    /\ closeAction' = "none"
    /\ outcome' = NoOutcome
    /\ cbLog' = <<>>
    /\ UNCHANGED <<lmk_user_id, session, close_session, ws, inbox, pc, op, tsock>>

\* The heartbeat of ws_connect (line 185) gets no pong: the websocket is closed.
HeartbeatLost(s) ==
    /\ Referenced(s)
    /\ sockState[s] = "broken"
    /\ sockState' = [sockState EXCEPT ![s] = "closed"]
    /\ sent' = NoWrite
    /\ response' = NoResponse
    /\ timedOut' = timedOut
    /\ UNCHANGED codec
    /\ closeAction' = "none"
    /\ outcome' = NoOutcome
    /\ cbLog' = <<>>
    /\ UNCHANGED <<lmk_user_id, session, close_session, ws, inbox, pc, op, tsock>>

\* ---------------------------------------------------- the codec round trip

\* The LMKNotification values: every field unset, set, or set to a falsy value.
AllNotifications ==
    [type : {None, Some("notification")},
     title : {None, Some(""), Some("t")},
     subtitle : {None, Some("s")},
     content : {None, Some("c")},
     image : {None, Some([url |-> "u"])},
     timeout : {None, Some(0), Some(5)}]

\* n.to_dict()
Encode ==
    /\ cpc = "value"
    /\ cwire' = LMKNotification_to_dict(cn)
    /\ cpc' = "encoded"
    /\ UNCHANGED <<cn, cdec>>
    /\ UNCHANGED client

\* LMKNotification.from_dict(wire)
Decode ==
    /\ cpc = "encoded"
    /\ cdec' = LMKNotification_from_dict(cwire)
    /\ cpc' = "decoded"
    /\ UNCHANGED <<cn, cwire>>
    /\ UNCHANGED client

\* ------------------------------------------------------ the specification

\* A client as constructed, with or without a session of the caller's.
Init ==
    /\ lmk_user_id \in UserIds
    /\ session \in {"None", "open"}
    /\ close_session = FALSE
    /\ ws = 0
    /\ sockState = [s \in Sockets |-> "unused"]
    /\ inbox = [s \in Sockets |-> <<>>]
    /\ sent = NoWrite
    /\ response = NoResponse
    /\ timedOut = {}
    /\ pc = [t \in Tasks |-> IF t = "main" THEN "idle" ELSE "off"]
    /\ op = ""
    /\ tsock = [t \in Tasks |-> 0]
    /\ outcome = NoOutcome
    /\ cbLog = <<>>
    /\ closeAction = "none"
    /\ cpc = "off"
    /\ cn = N_Empty
    /\ cwire = None
    /\ cdec = None

Next ==
    \/ ws_connect
    \/ ws_connect_ok
    \/ \E t \in Tasks : ws_connect_fail(t)
    \/ ws_register
    \/ \E a \in NotifyArgs : ws_send_notification(a[1], a[2])
    \/ ws_send_no_wait
    \/ \E t \in Tasks : ws_send_receive(t)
    \/ \E t \in Tasks : ws_send_timeout(t)
    \/ ws_listen_for_notifications
    \/ ws_listen_receive
    \/ close
    \/ aexit
    \/ ws_keep_alive
    \/ ws_keep_alive_sleep
    \/ ws_keep_alive_reconnect
    \/ ws_keep_alive_register
    \/ \E s \in Sockets, f \in ServerFrames : ServerSend(s, f)
    \/ \E s \in Sockets : TransportLost(s)
    \/ \E s \in Sockets : HeartbeatLost(s)

Spec == Init /\ [][Next]_vars

\* The codec alone: a notification is encoded, and the result decoded.
InitCodec ==
    /\ lmk_user_id \in UserIds
    /\ session = "None"
    /\ close_session = FALSE
    /\ ws = 0
    /\ sockState = [s \in Sockets |-> "unused"]
    /\ inbox = [s \in Sockets |-> <<>>]
    /\ sent = NoWrite
    /\ response = NoResponse
    /\ timedOut = {}
    /\ pc = [t \in Tasks |-> IF t = "main" THEN "idle" ELSE "off"]
    /\ op = ""
    /\ tsock = [t \in Tasks |-> 0]
    /\ outcome = NoOutcome
    /\ cbLog = <<>>
    /\ closeAction = "none"
    /\ cpc = "value"
    /\ cn \in AllNotifications
    /\ cwire = None
    /\ cdec = None

NextCodec == Encode \/ Decode

SpecCodec == InitCodec /\ [][NextCodec]_vars

\* A client that has just connected, its requests and its listen loop on that
\* one websocket, and a server that sends up to MaxBurst frames ahead of the
\* client's reading.
W_PushEmpty ==
    [type |-> "notification", data |-> LMKNotification_to_dict(N_Empty),
     targets |-> TARGETS_ALL_CLIENTS]

BurstFrames ==
    {TextFrame(W_Push), TextFrame(W_PushEmpty), TextFrame(W_RegisterAck),
     TextFrame(W_Sent), CloseFrame, BinaryFrame}

InitBurst ==
    /\ lmk_user_id \in UserIds
    /\ session = "open"
    /\ close_session = TRUE
    /\ ws = 1
    /\ sockState = [s \in Sockets |-> IF s = 1 THEN "open" ELSE "unused"]
    /\ inbox = [s \in Sockets |-> <<>>]
    /\ sent = NoWrite
    /\ response = NoResponse
    /\ timedOut = {}
    /\ pc = [t \in Tasks |-> IF t = "main" THEN "idle" ELSE "off"]
    /\ op = ""
    /\ tsock = [t \in Tasks |-> 0]
    /\ outcome = NoOutcome
    /\ cbLog = <<>>
    /\ closeAction = "none"
    /\ cpc = "off"
    /\ cn = N_Empty
    /\ cwire = None
    /\ cdec = None

NextBurst ==
    \/ ws_register
    \/ \E a \in NotifyArgs : ws_send_notification(a[1], a[2])
    \/ ws_send_receive("main")
    \/ ws_send_timeout("main")
    \/ ws_listen_for_notifications
    \/ ws_listen_receive
    \/ \E f \in BurstFrames : ServerBurst(1, f)
    \/ TransportLost(1)
    \/ HeartbeatLost(1)

SpecBurst == InitBurst /\ [][NextBurst]_vars

\* ------------------------------------------------------------- the claims

\* The operations of the main task that use the websocket.
SocketOps ==
    {"ws_register", "ws_send_notification", "_ws_send", "ws_listen_for_notifications"}

\* In this step the main task called one of them.
CalledSocketOp ==
    /\ pc["main"] = "idle"
    /\ \/ pc'["main"] \in {"recv", "listen"}
       \/ outcome'.kind \in {"return", "raise"} /\ outcome'.op \in SocketOps

\* No open handle: never connected, cleared, or the websocket's closed flag set.
NoOpenHandle == ws = 0 \/ sockState[ws] = "closed"

\* C1: with no open handle, ws_register, ws_send_notification, _ws_send and
\* ws_listen_for_notifications raise LMKNotConnectedError in the step they are
\* called in: nothing is written, no frame is read, the task is not suspended.
C1_NotConnected ==
    [][(CalledSocketOp /\ NoOpenHandle) =>
          /\ outcome'.kind = "raise"
          /\ outcome'.exc = "LMKNotConnectedError"
          /\ sent' = NoWrite
          /\ response' = NoResponse
          /\ cbLog' = <<>>
          /\ inbox' = inbox
          /\ sockState' = sockState
          /\ pc'["main"] = "idle"]_vars

\* C1 happens: a send on a handle whose websocket is closed was refused.
C1_Witness ==
    /\ outcome.kind = "raise"
    /\ outcome.exc = "LMKNotConnectedError"
    /\ outcome.op = "ws_send_notification"
    /\ ws # 0
    /\ sockState[ws] = "closed"

\* The envelope _ws_send returns for a close frame.
ConnectionClosed ==
    [cls |-> "LMKWSResponseError", type |-> "error", message |-> "Connection closed",
     error |-> "Connection closed"]

\* C2: when the frame a waiting _ws_send receives is a close, closing or closed
\* message, it returns (does not raise) the ERROR envelope "Connection closed"
\* and the handle is cleared; a cleared handle stays cleared, so ws_connected
\* stays false, until a handshake succeeds and stores a new websocket.
C2_CloseFrame ==
    [][/\ (response'.sock # 0 /\ response'.msg.kind \in {"CLOSE", "CLOSING", "CLOSED"}) =>
             /\ outcome'.kind = "return"
             /\ outcome'.value = ConnectionClosed
             /\ ws' = 0
             /\ ~ws_connected'
       /\ (ws = 0 /\ ws' # 0) =>
             /\ sockState[ws'] = "unused"
             /\ sockState'[ws'] = "open"
             /\ pc'["main"] # pc["main"] \/ pc'["ka"] # pc["ka"]
             /\ \E t \in Tasks : pc[t] = "handshake"]_vars

\* C2 happens: a close frame was received by a waiting ws_send_notification.
C2_Witness ==
    /\ response.sock # 0
    /\ response.msg.kind = "CLOSE"
    /\ ~response.stale
    /\ outcome.kind = "return"
    /\ outcome.op = "ws_send_notification"
    /\ ws = 0

\* C3: _ws_send with wait_for_response=False, on an open websocket, returns the
\* synthetic SUCCESS envelope "No response expected" in the step it is called
\* in; it is never suspended, receive() is not called and the frames queued on
\* every websocket are left as they were.
C3_NoResponseExpected ==
    [][/\ op' # "_ws_send"
       /\ (outcome'.kind = "return" /\ outcome'.op = "_ws_send") =>
             /\ pc["main"] = "idle"
             /\ outcome'.value =
                   [cls |-> "LMKWSResponseSuccess", type |-> "success",
                    succeeded |-> TRUE, message |-> "No response expected"]
             /\ response' = NoResponse
             /\ inbox' = inbox
             /\ sent'.sock = ws
       /\ (/\ pc["main"] = "idle"
           /\ outcome'.kind \in {"return", "raise"}
           /\ outcome'.op = "_ws_send"
           /\ ws # 0
           /\ sockState[ws] = "open") => outcome'.kind = "return"]_vars

\* C3 happens: the send returned while a frame was queued on the websocket.
C3_Witness ==
    /\ outcome.kind = "return"
    /\ outcome.op = "_ws_send"
    /\ ws # 0
    /\ inbox[ws] # <<>>

\* C4: no exception escapes ws_keep_alive.
C4_NoEscape == ~(outcome.kind = "raise" /\ outcome.op = "ws_keep_alive")

\* A step of the ws_keep_alive task.
KaStep == pc'["ka"] # pc["ka"]

C6_MinimalAck ==
    (/\ response.sock # 0
     /\ response.msg = TextFrame([type |-> "register"])
     /\ outcome.kind \in {"return", "raise"}
     /\ outcome.op = "ws_register") =>
        (outcome.kind = "return" /\ outcome.value.type = REGISTER)

\* C7: a reply with an "error" key is returned as an ERROR envelope, whatever
\* its "type" says.
C7_ErrorKeyWins ==
    (/\ response.sock # 0
     /\ response.msg.kind = "TEXT"
     /\ "error" \in DOMAIN response.msg.data) =>
        /\ outcome.kind = "return"
        /\ outcome.value.cls = "LMKWSResponseError"
        /\ outcome.value.type = ERROR

\* C8: LMKNotification.from_dict(n.to_dict()) = n for every notification n.
C8_RoundTrip == cpc = "decoded" => cdec = cn

\* C9: after a request timed out on a websocket, a reply that was already
\* queued on that websocket when a later request was written is not returned
\* as the response to that request.
C9_NoLateReply ==
    ~(/\ response.sock # 0
      /\ response.stale
      /\ response.msg.kind = "TEXT"
      /\ response.sock \in timedOut
      /\ outcome.kind = "return")

\* C10: when __aexit__ has run, no websocket the client opened is still open.
C10_ClosedAfterExit ==
    (outcome.kind = "return" /\ outcome.op = "__aexit__") =>
        \A s \in Sockets : sockState[s] # "open"

\* C11: over any sequence of _close / __aexit__ calls and other operations, a
\* session the client created is closed by the first close on it and by no
\* later one (a later close finds it closed and does nothing, and nothing
\* reopens it), and a session supplied by the caller is never closed.
C11_ClosedOnce ==
    [][/\ session' # session =>
             \/ session = "None" /\ session' = "open" /\ close_session'
             \/ /\ session = "open" /\ session' = "closed"
                /\ close_session
                /\ closeAction' = "closed"
       /\ close_session' # close_session => (session = "None" /\ close_session')
       /\ (outcome'.kind = "return" /\ outcome'.op \in {"_close", "__aexit__"}) =>
             /\ (close_session /\ session = "open") =>
                   (closeAction' = "closed" /\ session' = "closed")
             /\ session = "closed" =>
                   /\ closeAction' = "skipped"
                   /\ session' = "closed"
                   /\ sockState' = sockState
             /\ ~close_session =>
                   /\ closeAction' = "none"
                   /\ session' = session
                   /\ sockState' = sockState
       /\ closeAction' = "closed" => (session = "open" /\ close_session)
       /\ (session = "open" /\ ~close_session) => session' = "open"]_vars

\* C11 happens: a second close of the client's own session found it closed.
C11_Witness ==
    /\ closeAction = "skipped"
    /\ session = "closed"
    /\ outcome.kind = "return"
    /\ outcome.op = "_close"

\* C12: ws_connect ends in one of two ways: it returns True and an open
\* websocket is stored as the handle, or it raises LMKConnectionError.
C12_TwoOutcomes ==
    (outcome.kind \in {"return", "raise"} /\ outcome.op = "ws_connect") =>
        \/ /\ outcome.kind = "return"
           /\ outcome.value = [cls |-> "True"]
           /\ ws # 0
           /\ sockState[ws] = "open"
        \/ /\ outcome.kind = "raise"
           /\ outcome.exc = "LMKConnectionError"

\* C13: when a ws_register or ws_send_notification that awaits its reply gets no
\* frame before the request timeout, TimeoutError is raised to the caller, not
\* LMKConnectionError and not an envelope; and TimeoutError is raised by nothing
\* else.
C13_TimeoutPropagates ==
    [][/\ (/\ pc["main"] = "recv"
           /\ pc'["main"] = "idle"
           /\ response' = NoResponse) =>
             /\ op \in {"ws_register", "ws_send_notification"}
             /\ outcome' = [kind |-> "raise", op |-> op, exc |-> "TimeoutError"]
             /\ ws' = ws
             /\ sockState' = sockState
       /\ (outcome'.kind = "raise" /\ outcome'.exc = "TimeoutError") =>
             /\ response' = NoResponse
             /\ \E t \in Tasks : pc[t] = "recv" /\ pc'[t] # "recv"]_vars

\* C13 happens: ws_send_notification timed out on a websocket that is still
\* open and stored.
C13_Witness ==
    /\ outcome = [kind |-> "raise", op |-> "ws_send_notification", exc |-> "TimeoutError"]
    /\ ws # 0
    /\ sockState[ws] = "open"
    /\ ws \in timedOut

\* The websocket the listen loop of the main task reads: the one it is
\* suspended on, or the stored handle when it is called.
ListenSock == IF pc["main"] = "listen" THEN tsock["main"] ELSE ws

\* In this step ws_listen_for_notifications was called on a websocket that is
\* not closed, or its suspended loop took at least one frame.
ListenStep ==
    \/ /\ pc["main"] = "idle"
       /\ ws # 0
       /\ sockState[ws] # "closed"
       /\ \/ pc'["main"] = "listen"
          \/ /\ outcome'.kind \in {"return", "raise"}
             /\ outcome'.op = "ws_listen_for_notifications"
    \/ /\ pc["main"] = "listen"
       /\ Len(inbox'[tsock["main"]]) < Len(inbox[tsock["main"]])

\* A text frame that decodes as a NOTIFICATION envelope, and the notification
\* embedded in it.
IsPush(f) == f.kind = "TEXT" /\ LMKWSNotification_from_dict(f.data).raised = ""
Embedded(f) == LMKNotification_from_dict(f.data.data)

\* How many frames at the head of ib are such frames; are text frames.
RECURSIVE PushPrefix(_)
PushPrefix(ib) ==
    IF ib = <<>> \/ ~IsPush(Head(ib)) THEN 0 ELSE 1 + PushPrefix(Tail(ib))
RECURSIVE TextPrefix(_)
TextPrefix(ib) ==
    IF ib = <<>> \/ Head(ib).kind # "TEXT" THEN 0 ELSE 1 + TextPrefix(Tail(ib))

\* C14 as stated: the callback is invoked once for every text frame that
\* precedes the first frame that is not text.
C14_EveryTextFrame ==
    [][ListenStep => Len(cbLog') = TextPrefix(inbox[ListenSock])]_vars

\* C14, amended: the callback is invoked once, in arrival order, with the
\* embedded notification of every text frame that decodes as a NOTIFICATION
\* envelope and precedes the first frame that is not such a frame.  At a frame
\* that is not text the loop returns, at a text frame that does not decode it
\* raises the decoder's KeyError or ValueError; either way that frame is
\* consumed, the frames behind it stay queued with no callback, nothing is
\* written and the handle and the session are left as they are.  With every
\* frame handled the loop waits for the next, or returns when the connection is
\* lost.
C14_ListenLoop ==
    [][/\ ListenStep =>
             LET s == ListenSock
                 ib == inbox[s]
                 k == PushPrefix(ib)
             IN  /\ Len(cbLog') = k
                 /\ \A i \in 1..k : cbLog'[i] = Embedded(ib[i])
                 /\ sent' = NoWrite
                 /\ ws' = ws
                 /\ session' = session
                 /\ IF k = Len(ib) /\ sockState[s] = "open" THEN
                        /\ pc'["main"] = "listen"
                        /\ outcome' = NoOutcome
                        /\ inbox'[s] = <<>>
                    ELSE IF k = Len(ib) THEN
                        /\ pc'["main"] = "idle"
                        /\ outcome' = [kind |-> "return",
                                       op |-> "ws_listen_for_notifications",
                                       value |-> [cls |-> "None"]]
                        /\ inbox'[s] = <<>>
                    ELSE
                        /\ pc'["main"] = "idle"
                        /\ inbox'[s] = SubSeq(ib, k + 2, Len(ib))
                        /\ IF ib[k + 1].kind # "TEXT"
                           THEN outcome' = [kind |-> "return",
                                            op |-> "ws_listen_for_notifications",
                                            value |-> [cls |-> "None"]]
                           ELSE /\ outcome'.kind = "raise"
                                /\ outcome'.op = "ws_listen_for_notifications"
                                /\ outcome'.exc \in {"KeyError", "ValueError"}
       /\ cbLog' # <<>> => ListenStep]_vars

\* C14 happens: of three queued frames the loop handed over the first, a
\* notification, returned at the second, a binary frame, and left the third, a
\* notification, unread.
C14_Witness ==
    /\ cbLog = <<N_Full>>
    /\ outcome.kind = "return"
    /\ outcome.op = "ws_listen_for_notifications"
    /\ ws # 0
    /\ inbox[ws] = <<TextFrame(W_PushEmpty)>>

\* C15: the NOTIFICATION object ws_send_notification writes carries the
\* notification it was called with and, as "targets", exactly <<"client-*">>
\* when it was called without targets and the targets given, in their order,
\* when it was called with targets.
C15_Targets ==
    (sent.sock # 0 /\ sent.data.type = "notification") =>
        \E a \in NotifyArgs :
            /\ sent.data.data = LMKNotification_to_dict(a[1])
            /\ sent.data.targets = IF a[2] = <<>> THEN <<"client-*">> ELSE a[2][1]
            /\ DOMAIN sent.data = {"type", "data", "targets"}

\* C15 happens: a notification was written for a call without targets.
C15_Witness ==
    /\ sent.sock # 0
    /\ sent.data.type = "notification"
    /\ sent.data.data = LMKNotification_to_dict(N_Empty)
    /\ sent.data.targets = <<"client-*">>

\* C16: no step changes lmk_user_id, and every REGISTER request written, by
\* ws_register for the caller and by ws_keep_alive after a reconnect, carries it.
C16_SameUserId ==
    [][/\ lmk_user_id' = lmk_user_id
       /\ (sent'.sock # 0 /\ sent'.data.type = "register") =>
             sent'.data = [type |-> "register", userID |-> lmk_user_id]]_vars

\* C16 happens: ws_keep_alive re-registered on the second websocket of the
\* client, after a reconnect.
C16_Witness ==
    /\ sent.sock = 2
    /\ sent.data = [type |-> "register", userID |-> lmk_user_id]
    /\ pc["ka"] = "recv"
    /\ op = ""
    /\ outcome = NoOutcome
    /\ sockState[1] # "unused"

\* C17 as stated: the frame a waiting request takes as its reply is a frame
\* that arrived after the request was written.
C17_NextToArrive ==
    response.sock # 0 => (~response.stale /\ response.msg.kind # "CLOSED")

\* C17, amended: a ws_register or ws_send_notification that gets as far as
\* reading and does not time out ends with exactly one message of its
\* websocket: the first frame queued unread, whether it arrived before the
\* request was written or after, or the closed indication, with no frame
\* consumed, when the websocket is closed or has lost its connection with
\* nothing queued.  The frames behind it stay queued as they are.  A pushed
\* notification in that place is taken as the reply (the request ends by raising
\* ValueError for it).  A request that is refused, cannot write or times out
\* consumes nothing.
C17_OneFrame ==
    [][/\ response'.sock # 0 =>
             LET s == response'.sock
                 ib == inbox[s]
                 took == sockState[s] # "closed" /\ ib # <<>>
             IN  /\ outcome'.kind \in {"return", "raise"}
                 /\ outcome'.op \in {"ws_register", "ws_send_notification"}
                 /\ response'.msg = IF took THEN Head(ib) ELSE ClosedMessage
                 /\ inbox'[s] = IF ws' # s THEN <<>> ELSE IF took THEN Tail(ib) ELSE ib
                 /\ ws' # s => (ws' = 0 /\ response'.msg.kind \in {"CLOSE", "CLOSED"})
                 /\ response'.stale = (pc["main"] = "idle")
                 /\ response'.msg \in {TextFrame(W_Push), TextFrame(W_PushEmpty)} =>
                       (outcome'.kind = "raise" /\ outcome'.exc = "ValueError")
       /\ (/\ response' = NoResponse
           /\ pc["main"] # "listen"
           /\ pc'["main"] # "listen"
           /\ ~(/\ outcome'.kind \in {"return", "raise"}
                /\ outcome'.op = "ws_listen_for_notifications")) =>
             \A s \in Sockets :
                 /\ Len(inbox'[s]) >= Len(inbox[s])
                 /\ SubSeq(inbox'[s], 1, Len(inbox[s])) = inbox[s]]_vars

\* C17 happens: while the reply to ws_send_notification was pending the server
\* pushed a notification and then replied; the push was taken as the reply and
\* the reply is still queued.
C17_Witness ==
    /\ response.sock # 0
    /\ response.msg = TextFrame(W_Push)
    /\ ~response.stale
    /\ outcome = [kind |-> "raise", op |-> "ws_send_notification", exc |-> "ValueError"]
    /\ ws = response.sock
    /\ inbox[ws] = <<TextFrame(W_Sent)>>

PollStep ==
    /\ pc["ka"] = "poll"
    /\ pc'["ka"] = "poll"
    /\ ws_connected
    /\ pc'["main"] = pc["main"]
    /\ outcome' = NoOutcome
    /\ cbLog' = <<>>

\* C19: while ws_keep_alive polls a connected client, its polling writes
\* nothing, reads no frame and leaves the handle and the session as they are:
\* every frame queued stays queued, in place, for the operation that reads next.
C19_PollOnly ==
    [][PollStep =>
          /\ sent' = NoWrite
          /\ response' = NoResponse
          /\ ws' = ws
          /\ session' = session
          /\ tsock' = tsock
          /\ \A s \in Sockets :
                /\ Len(inbox'[s]) >= Len(inbox[s])
                /\ SubSeq(inbox'[s], 1, Len(inbox[s])) = inbox[s]]_vars

\* C19 happens: ws_keep_alive polls a connected client with a frame queued on
\* its websocket and no operation of the caller running.
C19_Witness ==
    /\ pc["ka"] = "poll"
    /\ ws_connected
    /\ inbox[ws] # <<>>
    /\ pc["main"] = "idle"
    /\ outcome = NoOutcome
    /\ sent = NoWrite

\* C20: a ws_register, ws_send_notification or _ws_send (wait_for_response
\* False) called on a handle whose connection is lost, so that send_json fails,
\* raises LMKConnectionError in the step it is called in: it reads no frame,
\* consumes none, returns no envelope and leaves the handle as it is.
C20_WriteFails ==
    [][(/\ pc["main"] = "idle"
        /\ ws # 0
        /\ sockState[ws] = "broken"
        /\ \/ pc'["main"] = "recv"
           \/ /\ outcome'.kind \in {"return", "raise"}
              /\ outcome'.op \in {"ws_register", "ws_send_notification", "_ws_send"}) =>
          /\ outcome'.kind = "raise"
          /\ outcome'.exc = "LMKConnectionError"
          /\ response' = NoResponse
          /\ inbox' = inbox
          /\ pc'["main"] = "idle"
          /\ ws' = ws]_vars

\* C20 happens: a send that expects no reply failed to write, with a frame
\* queued on the websocket.
C20_Witness ==
    /\ outcome = [kind |-> "raise", op |-> "_ws_send", exc |-> "LMKConnectionError"]
    /\ ws # 0
    /\ sockState[ws] = "broken"
    /\ inbox[ws] # <<>>


\* The websockets the client opened that are open.
OpenSockets == {s \in Sockets : sockState[s] = "open"}

\* C21: in every reachable state at most one websocket that the client opened
\* is open: ws_connect called while a websocket is open does not leave the
\* earlier one open when it replaces the stored handle.
C21_OneOpenSocket == Cardinality(OpenSockets) <= 1

====
